---- MODULE Spec2Model ----
(***************************************************************************)
(* The measurement loop of go/cmd/sds011/main.go: the main goroutine       *)
(* (open the sensor, then cycle forever: wake check, burst of reads,       *)
(* average, print, gauges, sleep/wait/wake), the listen_http goroutine     *)
(* and a /metrics request that reads the two gauges.                       *)
(*                                                                         *)
(* Time is counted in ticks, OneSecond ticks to the second.  PM values are *)
(* counted in tenths of a microgram (the resolution of the sensor); a      *)
(* float64 is modelled as an exact fraction [num, den] in lowest terms.    *)
(***************************************************************************)
EXTENDS Integers, Sequences, FiniteSets, TLC

\* ------------------------------------------------------------------ bounds
MaxNow == 4          \* the clock stops at this tick
StartEpoch == 1704067200  \* wall-clock second of tick 0 (2024-01-01T00:00:00Z)

\* ------------------------------------------------------- program constants
OneSecond == 2       \* 1 * time.Second, in ticks (a tick is half a second)

\* flag values the model draws from: -samples, -interval (0, exactly one
\* second, a second and a half), -listen-address.  Line 33 declares
\* interval a second time; the interval of line 123 is the flag's value.
SampleCounts == {1, 2}
Intervals == {0, OneSecond, OneSecond + 1}
Addrs == {"", ":9100"}
\* readings the sensor can return: PM2.5 and PM10, in tenths
Points == {[PM25 |-> 1, PM10 |-> 2]}

\* -------------------------------------------------------------- float64
RECURSIVE GCD(_, _)
GCD(a, b) == IF b = 0 THEN a ELSE GCD(b, a % b)

Float(n) == [num |-> n, den |-> 1]

FAdd(x, y) ==
    LET n == x.num * y.den + y.num * x.den
        d == x.den * y.den
        g == GCD(n, d)
    IN  [num |-> n \div g, den |-> d \div g]

\* x / float64(n), n >= 1
FDiv(x, n) ==
    LET d == x.den * n
        g == GCD(x.num, d)
    IN  [num |-> x.num \div g, den |-> d \div g]

\* ------------------------------------------------------ time formatting
Digit(d) == SubSeq("0123456789", d + 1, d + 1)

RECURSIVE Itoa(_)
Itoa(n) == IF n < 10 THEN Digit(n) ELSE Itoa(n \div 10) \o Digit(n % 10)

Pad2(n) == Digit(n \div 10) \o Digit(n % 10)

Pad4(n) == Pad2(n \div 100) \o Pad2(n % 100)

\* time.Time.Unix(): whole seconds since the epoch of the instant at tick t
Unix(t) == StartEpoch + t \div OneSecond

\* fmt.Sprintf("%v", point.Timestamp.Unix())
SprintfUnix(t) == Itoa(Unix(t))

\* time.Time.Format(time.RFC3339) of the instant s seconds after the epoch,
\* taken in UTC
RFC3339(s) ==
    LET days == s \div 86400
        sod  == s % 86400
        z    == days + 719468
        era  == z \div 146097
        doe  == z - era * 146097
        yoe  == (doe - doe \div 1460 + doe \div 36524 - doe \div 146096) \div 365
        doy  == doe - (365 * yoe + yoe \div 4 - yoe \div 100)
        mp   == (5 * doy + 2) \div 153
        d    == doy - (153 * mp + 2) \div 5 + 1
        m    == IF mp < 10 THEN mp + 3 ELSE mp - 9
        y    == yoe + era * 400 + (IF m <= 2 THEN 1 ELSE 0)
    IN  Pad4(y) \o "-" \o Pad2(m) \o "-" \o Pad2(d) \o "T"
        \o Pad2(sod \div 3600) \o ":" \o Pad2((sod % 3600) \div 60) \o ":"
        \o Pad2(sod % 60) \o "Z"

\* point.Timestamp.Format(time.RFC3339)
FormatRFC3339(t) == RFC3339(Unix(t))

\* fmt's %.2f of a value held in tenths: hundredths, rounded to nearest
Fmt2f(x) ==
    LET h == (20 * x.num + x.den) \div (2 * x.den)
    IN  Itoa(h \div 100) \o "." \o Pad2(h % 100)

\* --------------------------------------------------------------- state
VARIABLES
    samples, interval, unix, addr,   \* the flags (lines 36-40)
    pc,                              \* position of the main goroutine
    sensor,                          \* handle: "none", "open", "failed", "closed"
    err, awake, t1, i, pm10, pm25, ts,  \* main's variables
    stdout,                          \* lines written to os.Stdout by the
                                     \* iteration under way (the stream is
                                     \* write-only, older lines are dropped)
    pm25mt, pm10mt,                  \* the two gauges
    http,                            \* "off", "starting", "serving", "failed"
    rd, half, scrape,                \* a /metrics request reading the gauges
    exit,                            \* "running", or what ended the process
    now,                             \* the wall clock, in ticks
    power,                           \* the device: "Unknown", "Awake", "Asleep"
    cycle,                           \* iteration: 0 none yet, 1 first, 2 later
    trace,                           \* the steps of this iteration, in order
    burst,                           \* outcomes of this iteration's reads
    t0prev,                          \* t1 of the iteration before, from the top
                                     \* of the loop until t1 is taken; else -1
    wait                             \* from/to of the last time.Sleep, until t1
                                     \* is taken again; else NoWait

flags == <<samples, interval, unix, addr>>
locals == <<err, awake, t1, i, pm10, pm25, ts>>
gauges == <<pm25mt, pm10mt>>
reader == <<rd, half, scrape>>
ghosts == <<trace, burst, t0prev, wait>>
vars == <<flags, pc, sensor, locals, stdout, gauges, http, reader, exit, now,
          power, cycle, ghosts>>

Zero == Float(0)
Pair(a, b) == [pm25 |-> a, pm10 |-> b]
NoScrape == Pair(Zero, Zero)
NoWait == [from |-> -1, to |-> -1]

Init ==
    /\ samples \in SampleCounts
    /\ interval \in Intervals
    /\ unix \in BOOLEAN
    /\ addr \in Addrs
    /\ pc = "main"
    /\ sensor = "none"
    /\ err = FALSE /\ awake = FALSE /\ t1 = 0 /\ i = 0
    /\ pm10 = Zero /\ pm25 = Zero /\ ts = ""
    /\ stdout = <<>>
    /\ pm25mt = Zero /\ pm10mt = Zero
    /\ http = "off"
    /\ rd = "idle" /\ half = Zero /\ scrape = NoScrape
    /\ exit = "running"
    /\ now = 0
    /\ power = "Unknown"
    /\ cycle = 0
    /\ trace = <<>> /\ burst = <<>> /\ t0prev = -1 /\ wait = NoWait

\* ------------------------------------------------------------ the device
\* sds011.New: the port opens or it does not
NewResults == {"ok", "error"}

\* sensor.IsAwake: the answer of the device, or a communication failure
\* (false and an error); the first answer settles an Unknown power state
IsAwakeResults ==
    {[awake |-> FALSE, err |-> TRUE, power |-> power]}
    \cup (IF power = "Unknown"
          THEN {[awake |-> TRUE, err |-> FALSE, power |-> "Awake"],
                [awake |-> FALSE, err |-> FALSE, power |-> "Asleep"]}
          ELSE {[awake |-> power = "Awake", err |-> FALSE, power |-> power]})

\* sensor.Awake and sensor.Sleep are best effort: the command takes effect
\* or the device stays as it was
AwakeResults == {"Awake", power}
SleepResults == {"Asleep", power}

\* sensor.Get: a reading stamped with the time of the read, or an error
GetResults ==
    {[ok |-> TRUE, PM25 |-> p.PM25, PM10 |-> p.PM10, Timestamp |-> now] :
       p \in Points}
    \cup {[ok |-> FALSE, PM25 |-> 0, PM10 |-> 0, Timestamp |-> 0]}

Event(op) == [op |-> op, power |-> power]

\* log.Fatal: os.Exit(1), deferred calls do not run
Fatal(why) ==
    /\ exit' = why
    /\ pc' = "exited"

\* ------------------------------------------------------------------ main
\* lines 79-83: flag.Parse, then start listen_http when an address is given
Main ==
    /\ exit = "running" /\ pc = "main"
    /\ http' = IF Len(addr) > 0 THEN "starting" ELSE http
    /\ pc' = "new"
    /\ UNCHANGED <<flags, sensor, locals, stdout, gauges, reader, exit, now,
                   power, cycle, ghosts>>

\* lines 85-89 with the error test left out: the loop is entered either way
NewUnchecked ==
    /\ exit = "running" /\ pc = "new"
    /\ \E r \in NewResults :
         /\ err' = (r = "error")
         /\ sensor' = IF r = "error" THEN "failed" ELSE "open"
    /\ pc' = "for"
    /\ UNCHANGED <<flags, awake, t1, i, pm10, pm25, ts, stdout, gauges, http,
                   reader, exit, now, power, cycle, ghosts>>

\* lines 85-89: open the sensor, log.Fatal when that fails, defer Close
New ==
    /\ exit = "running" /\ pc = "new"
    /\ \E r \in NewResults :
         /\ err' = (r = "error")
         /\ IF r = "error"
            THEN sensor' = "failed" /\ Fatal("open")
            ELSE sensor' = "open" /\ pc' = "for" /\ UNCHANGED exit
    /\ UNCHANGED <<flags, awake, t1, i, pm10, pm25, ts, stdout, gauges, http,
                   reader, now, power, cycle, ghosts>>

\* lines 91-99 with the test of line 97 inverted: wake the device when it
\* reports awake
IsAwakeInverted ==
    /\ exit = "running" /\ pc = "for"
    /\ cycle' = IF cycle = 0 THEN 1 ELSE 2
    /\ pm10' = Zero /\ pm25' = Zero /\ ts' = "" /\ t1' = 0
    /\ \E r \in IsAwakeResults :
         /\ awake' = r.awake
         /\ err' = r.err
         /\ power' = r.power
         /\ pc' = IF r.awake THEN "awake" ELSE "now"
    /\ trace' = <<Event("IsAwake")>>
    /\ burst' = <<>>
    /\ stdout' = <<>>
    /\ t0prev' = IF cycle = 0 THEN -1 ELSE t1
    /\ UNCHANGED <<flags, sensor, i, gauges, http, reader, exit, now, wait>>

\* lines 91-99 with the sums and ts declared outside the loop: an iteration
\* goes on from the values the one before it left
IsAwakeKeepingSums ==
    /\ exit = "running" /\ pc = "for"
    /\ cycle' = IF cycle = 0 THEN 1 ELSE 2
    /\ t1' = 0
    /\ \E r \in IsAwakeResults :
         /\ awake' = r.awake
         /\ err' = r.err
         /\ power' = r.power
         /\ pc' = IF ~r.awake THEN "awake" ELSE "now"
    /\ trace' = <<Event("IsAwake")>>
    /\ burst' = <<>>
    /\ stdout' = <<>>
    /\ t0prev' = IF cycle = 0 THEN -1 ELSE t1
    /\ UNCHANGED <<flags, sensor, i, pm10, pm25, ts, gauges, http, reader,
                   exit, now, wait>>

\* lines 91-99 looking at err as well: a query that failed sends no wake
\* command
IsAwakeCheckingErr ==
    /\ exit = "running" /\ pc = "for"
    /\ cycle' = IF cycle = 0 THEN 1 ELSE 2
    /\ pm10' = Zero /\ pm25' = Zero /\ ts' = "" /\ t1' = 0
    /\ \E r \in IsAwakeResults :
         /\ awake' = r.awake
         /\ err' = r.err
         /\ power' = r.power
         /\ pc' = IF ~r.awake /\ ~r.err THEN "awake" ELSE "now"
    /\ trace' = <<Event("IsAwake")>>
    /\ burst' = <<>>
    /\ stdout' = <<>>
    /\ t0prev' = IF cycle = 0 THEN -1 ELSE t1
    /\ UNCHANGED <<flags, sensor, i, gauges, http, reader, exit, now, wait>>

\* lines 91-99 without the sensor.Awake() of line 98
IsAwakeOnly ==
    /\ exit = "running" /\ pc = "for"
    /\ cycle' = IF cycle = 0 THEN 1 ELSE 2
    /\ pm10' = Zero /\ pm25' = Zero /\ ts' = "" /\ t1' = 0
    /\ \E r \in IsAwakeResults :
         /\ awake' = r.awake
         /\ err' = r.err
         /\ power' = r.power
    /\ pc' = "now"
    /\ trace' = <<Event("IsAwake")>>
    /\ burst' = <<>>
    /\ stdout' = <<>>
    /\ t0prev' = IF cycle = 0 THEN -1 ELSE t1
    /\ UNCHANGED <<flags, sensor, i, gauges, http, reader, exit, now, wait>>

\* lines 91-99, first half: a new iteration declares its variables afresh
\* and asks the device whether it is awake
IsAwake ==
    /\ exit = "running" /\ pc = "for"
    /\ cycle' = IF cycle = 0 THEN 1 ELSE 2
    /\ pm10' = Zero /\ pm25' = Zero /\ ts' = "" /\ t1' = 0
    /\ \E r \in IsAwakeResults :
         /\ awake' = r.awake
         /\ err' = r.err
         /\ power' = r.power
         /\ pc' = IF ~r.awake THEN "awake" ELSE "now"
    /\ trace' = <<Event("IsAwake")>>
    /\ burst' = <<>>
    /\ stdout' = <<>>
    /\ t0prev' = IF cycle = 0 THEN -1 ELSE t1
    /\ UNCHANGED <<flags, sensor, i, gauges, http, reader, exit, now, wait>>

\* line 98: the device did not report awake, send the wake command
Awake ==
    /\ exit = "running" /\ pc = "awake"
    /\ \E p \in AwakeResults : power' = p
    /\ pc' = "now"
    /\ trace' = Append(trace, Event("Awake"))
    /\ UNCHANGED <<flags, sensor, locals, stdout, gauges, http, reader, exit,
                   now, cycle, burst, t0prev, wait>>

\* lines 101-102: t1 = time.Now(), i := 0
TimeNow ==
    /\ exit = "running" /\ pc = "now"
    /\ t1' = now
    /\ i' = 0
    /\ pc' = "get"
    /\ trace' = Append(trace, Event("Now"))
    /\ t0prev' = -1
    /\ wait' = NoWait
    /\ UNCHANGED <<flags, sensor, err, awake, pm10, pm25, ts, stdout, gauges,
                   http, reader, exit, now, power, cycle, burst>>

\* lines 110-114: the text of a reading's timestamp
Stamp(t) == IF unix THEN SprintfUnix(t) ELSE FormatRFC3339(t)

\* lines 102-115 with the continue of line 106 left out: a failed read goes
\* on to the sums and the timestamp with the zero reading it returned
GetWithoutContinue ==
    /\ exit = "running" /\ pc = "get"
    /\ i < samples
    /\ \E point \in GetResults :
         /\ pm10' = FAdd(pm10, Float(point.PM10))
         /\ pm25' = FAdd(pm25, Float(point.PM25))
         /\ ts' = Stamp(point.Timestamp)
         /\ burst' = Append(burst, point)
    /\ i' = i + 1
    /\ trace' = Append(trace, Event("Get"))
    /\ UNCHANGED <<flags, pc, sensor, err, awake, t1, stdout, gauges, http,
                   reader, exit, now, power, cycle, t0prev, wait>>

\* lines 102-115: one pass of the read loop; a failed read is logged and
\* skipped, a good one is added to the sums and sets ts
Get ==
    /\ exit = "running" /\ pc = "get"
    /\ i < samples
    /\ \E point \in GetResults :
         /\ IF ~point.ok
            THEN UNCHANGED <<pm10, pm25, ts>>
            ELSE /\ pm10' = FAdd(pm10, Float(point.PM10))
                 /\ pm25' = FAdd(pm25, Float(point.PM25))
                 /\ ts' = Stamp(point.Timestamp)
         /\ burst' = Append(burst, point)
    /\ i' = i + 1
    /\ trace' = Append(trace, Event("Get"))
    /\ UNCHANGED <<flags, pc, sensor, err, awake, t1, stdout, gauges, http,
                   reader, exit, now, power, cycle, t0prev, wait>>

\* lines 117-118 dividing by the number of readings that succeeded (and
\* leaving 0 when none did) instead of by -samples
MeanOfSuccesses(sum) ==
    LET k == Len(SelectSeq(burst, LAMBDA r : r.ok))
    IN  IF k = 0 THEN Zero ELSE FDiv(sum, k)

\* lines 117-118: sum / float64(*samples)
Mean(sum) == FDiv(sum, samples)

\* lines 102, 117-118: the read loop is over, the sums become the averages
Average ==
    /\ exit = "running" /\ pc = "get"
    /\ ~(i < samples)
    /\ pm25' = Mean(pm25)
    /\ pm10' = Mean(pm10)
    /\ pc' = "printf"
    /\ trace' = Append(trace, Event("Average"))
    /\ UNCHANGED <<flags, sensor, err, awake, t1, i, ts, stdout, gauges, http,
                   reader, exit, now, power, cycle, burst, t0prev, wait>>

\* line 119 with the two values in the other order
LineSwapped(t, a, b) == t \o "," \o Fmt2f(b) \o "," \o Fmt2f(a) \o "\n"

\* line 119: the format "%s,%.2f,%.2f\n" applied to ts, pm25, pm10
Line(t, a, b) == t \o "," \o Fmt2f(a) \o "," \o Fmt2f(b) \o "\n"

\* line 119 moved into the read loop's success path: a burst without a good
\* reading prints nothing
FprintfIfRead ==
    /\ exit = "running" /\ pc = "printf"
    /\ stdout' = IF ts = "" THEN stdout
                  ELSE Append(stdout, Line(ts, pm25, pm10))
    /\ pc' = "set10"
    /\ trace' = IF ts = "" THEN trace ELSE Append(trace, Event("Fprintf"))
    /\ UNCHANGED <<flags, sensor, locals, gauges, http, reader, exit, now,
                   power, cycle, burst, t0prev, wait>>

\* line 119: fmt.Fprintf(os.Stdout, ...)
Fprintf ==
    /\ exit = "running" /\ pc = "printf"
    /\ stdout' = Append(stdout, Line(ts, pm25, pm10))
    /\ pc' = "set10"
    /\ trace' = Append(trace, Event("Fprintf"))
    /\ UNCHANGED <<flags, sensor, locals, gauges, http, reader, exit, now,
                   power, cycle, burst, t0prev, wait>>

\* line 120 handing the other average to the gauge
SetPM10FromPM25 ==
    /\ exit = "running" /\ pc = "set10"
    /\ pm10mt' = pm25
    /\ pc' = "set25"
    /\ trace' = Append(trace, Event("SetPM10"))
    /\ UNCHANGED <<flags, sensor, locals, stdout, pm25mt, http, reader, exit,
                   now, power, cycle, burst, t0prev, wait>>

\* line 120: pm10mt.Set(pm10)
SetPM10 ==
    /\ exit = "running" /\ pc = "set10"
    /\ pm10mt' = pm10
    /\ pc' = "set25"
    /\ trace' = Append(trace, Event("SetPM10"))
    /\ UNCHANGED <<flags, sensor, locals, stdout, pm25mt, http, reader, exit,
                   now, power, cycle, burst, t0prev, wait>>

\* line 123 with >= for >: an interval of exactly one second sleeps too
LongIntervalInclusive == interval >= 1 * OneSecond

\* line 123: the test that decides whether the device sleeps between cycles
LongInterval == interval > 1 * OneSecond

\* lines 121-125 without the sensor.Sleep() of line 124
SetPM25ThenWait ==
    /\ exit = "running" /\ pc = "set25"
    /\ pm25mt' = pm25
    /\ pc' = IF LongInterval THEN "wait" ELSE "for"
    /\ trace' = Append(trace, Event("SetPM25"))
    /\ UNCHANGED <<flags, sensor, locals, stdout, pm10mt, http, reader, exit,
                   now, power, cycle, burst, t0prev, wait>>

\* lines 121-123 entering the block of lines 124-126 only while the cycle
\* window is still open
SetPM25UnlessOverrun ==
    /\ exit = "running" /\ pc = "set25"
    /\ pm25mt' = pm25
    /\ pc' = IF LongInterval /\ now < t1 + interval THEN "sleep" ELSE "for"
    /\ trace' = Append(trace, Event("SetPM25"))
    /\ UNCHANGED <<flags, sensor, locals, stdout, pm10mt, http, reader, exit,
                   now, power, cycle, burst, t0prev, wait>>

\* lines 121-123: pm25mt.Set(pm25), then sleep the device or loop at once
SetPM25 ==
    /\ exit = "running" /\ pc = "set25"
    /\ pm25mt' = pm25
    /\ pc' = IF LongInterval THEN "sleep" ELSE "for"
    /\ trace' = Append(trace, Event("SetPM25"))
    /\ UNCHANGED <<flags, sensor, locals, stdout, pm10mt, http, reader, exit,
                   now, power, cycle, burst, t0prev, wait>>

\* line 124: sensor.Sleep()
Sleep ==
    /\ exit = "running" /\ pc = "sleep"
    /\ \E p \in SleepResults : power' = p
    /\ pc' = "wait"
    /\ trace' = Append(trace, Event("Sleep"))
    /\ UNCHANGED <<flags, sensor, locals, stdout, gauges, http, reader, exit,
                   now, cycle, burst, t0prev, wait>>

\* the whole interval instead of what is left of it
UntilFromNow(t) == interval

\* time.Until(t1.Add(interval)): what is left of the cycle window
Until(t) == t - now

\* line 125: time.Sleep(d) returns at once when d <= 0, after d otherwise
TimeSleep ==
    /\ exit = "running" /\ pc = "wait"
    /\ LET d == Until(t1 + interval)
           end == IF d <= 0 THEN now ELSE now + d
       IN  /\ end <= MaxNow
           /\ now' = end
           /\ wait' = [from |-> now, to |-> end]
    /\ pc' = "wake"
    /\ trace' = Append(trace, Event("TimeSleep"))
    /\ UNCHANGED <<flags, sensor, locals, stdout, gauges, http, reader, exit,
                   power, cycle, burst, t0prev>>

\* line 126: sensor.Awake() after the wait
AwakeAgain ==
    /\ exit = "running" /\ pc = "wake"
    /\ \E p \in AwakeResults : power' = p
    /\ pc' = "for"
    /\ trace' = Append(trace, Event("AwakeAgain"))
    /\ UNCHANGED <<flags, sensor, locals, stdout, gauges, http, reader, exit,
                   now, cycle, burst, t0prev, wait>>

\* time passes while the loop is busy with the device: during the wake
\* check and the wake command, and during the burst of reads
Tick ==
    /\ exit = "running"
    /\ pc \in {"now", "get"}
    /\ now < MaxNow
    /\ now' = now + 1
    /\ UNCHANGED <<flags, pc, sensor, locals, stdout, gauges, http, reader,
                   exit, power, cycle, ghosts>>

\* ----------------------------------------------------------- listen_http
\* lines 74-75: the handler is registered and the server starts to serve
Listen ==
    /\ exit = "running" /\ http = "starting"
    /\ http' = "serving"
    /\ UNCHANGED <<flags, pc, sensor, locals, stdout, gauges, reader, exit,
                   now, power, cycle, ghosts>>

\* line 75: ListenAndServe returns (it only ever returns an error, at once
\* when the address cannot be bound) and log.Fatal ends the process
ListenFatal ==
    /\ exit = "running" /\ http \in {"starting", "serving"}
    /\ http' = "failed"
    /\ Fatal("listen")
    /\ UNCHANGED <<flags, sensor, locals, stdout, gauges, reader, now, power,
                   cycle, ghosts>>

\* line 74: a request to /metrics gathers the gauges one after the other,
\* in either order; this step reads the first
ScrapeFirst ==
    /\ exit = "running" /\ http = "serving" /\ rd = "idle"
    /\ \E g \in {"pm25", "pm10"} :
         /\ rd' = g
         /\ half' = IF g = "pm25" THEN pm25mt ELSE pm10mt
    /\ scrape' = NoScrape
    /\ UNCHANGED <<flags, pc, sensor, locals, stdout, gauges, http, exit, now,
                   power, cycle, ghosts>>

\* ... this step reads the other and has the pair of the response
ScrapeSecond ==
    /\ exit = "running" /\ http = "serving" /\ rd \in {"pm25", "pm10"}
    /\ scrape' = IF rd = "pm25" THEN Pair(half, pm10mt) ELSE Pair(pm25mt, half)
    /\ rd' = "done"
    /\ half' = Zero
    /\ UNCHANGED <<flags, pc, sensor, locals, stdout, gauges, http, exit, now,
                   power, cycle, ghosts>>

\* ... and this step sends the response
ScrapeDone ==
    /\ exit = "running" /\ http = "serving" /\ rd = "done"
    /\ rd' = "idle"
    /\ scrape' = NoScrape
    /\ UNCHANGED <<flags, pc, sensor, locals, stdout, gauges, http, half, exit,
                   now, power, cycle, ghosts>>

\* the main goroutine and listen_http, no request under way
Next ==
    \/ Main \/ New \/ IsAwake \/ Awake \/ TimeNow \/ Get \/ Average
    \/ Fprintf \/ SetPM10 \/ SetPM25 \/ Sleep \/ TimeSleep \/ AwakeAgain
    \/ Tick \/ Listen \/ ListenFatal

Spec == Init /\ [][Next]_vars

\* the same with requests to /metrics served alongside; a request writes
\* only rd, half and scrape, which no step of Next reads
NextServed ==
    \/ Main \/ New \/ IsAwake \/ Awake \/ TimeNow \/ Get \/ Average
    \/ Fprintf \/ SetPM10 \/ SetPM25 \/ Sleep \/ TimeSleep \/ AwakeAgain
    \/ Tick \/ Listen \/ ListenFatal
    \/ ScrapeFirst \/ ScrapeSecond \/ ScrapeDone

SpecServed == Init /\ [][NextServed]_vars

\* ================================================================ claims
\* the averages of the iteration under way are computed (lines 117-118 ran)
Measured ==
    \/ pc \in {"printf", "set10", "set25", "sleep", "wait", "wake"}
    \/ pc = "for" /\ cycle > 0

\* the steps of this iteration named op
Steps(op) == SelectSeq(trace, LAMBDA e : e.op = op)

\* the successful readings of a burst, in order
Good(b) == SelectSeq(b, LAMBDA r : r.ok)

RECURSIVE SumPM25(_)
SumPM25(b) == IF b = <<>> THEN 0 ELSE b[1].PM25 + SumPM25(Tail(b))

RECURSIVE SumPM10(_)
SumPM10(b) == IF b = <<>> THEN 0 ELSE b[1].PM10 + SumPM10(Tail(b))

\* x is the fraction n / d
IsQuotient(x, n, d) == x.num * d = n * x.den

\* C1: once the averages are computed, pm25 is the sum of pm25 over the
\* successful readings of the burst divided by the configured -samples, and
\* pm10 likewise, whatever readings failed; both are 0 when none succeeded.
C1_DividedBySamples ==
    Measured =>
        /\ IsQuotient(pm25, SumPM25(Good(burst)), samples)
        /\ IsQuotient(pm10, SumPM10(Good(burst)), samples)
        /\ (Good(burst) = <<>> => pm25 = Zero /\ pm10 = Zero)

\* a burst of two reads of which exactly one succeeded has been averaged
C1_Witness ==
    /\ Measured
    /\ samples = 2
    /\ Len(burst) = 2
    /\ Len(Good(burst)) = 1
    /\ pm25 # Zero

\* the text ts must hold after the reads in b
LastStamp(b) ==
    IF Good(b) = <<>> THEN "" ELSE Stamp(Good(b)[Len(Good(b))].Timestamp)

\* C2: every cycle makes exactly -samples read requests, failed or not; in
\* the burst the sums and ts are those of the successful readings alone, so
\* the line's timestamp is that of the last successful reading and is empty
\* when no reading succeeded.
C2_FailedReadsSkipped ==
    /\ pc = "get" =>
         /\ Len(burst) = i /\ i <= samples
         /\ pm25 = Float(SumPM25(Good(burst)))
         /\ pm10 = Float(SumPM10(Good(burst)))
    /\ pc = "get" \/ Measured =>
         /\ Len(Steps("Get")) = Len(burst)
         /\ ts = LastStamp(burst)
    /\ Measured => Len(burst) = samples
    /\ Len(stdout) = 1 =>
         SubSeq(stdout[1], 1, Len(LastStamp(burst)) + 1)
            = LastStamp(burst) \o ","

\* a line was written for a burst whose last read failed after a good one
C2_Witness ==
    /\ Len(stdout) = 1
    /\ samples = 2
    /\ burst[1].ok /\ ~burst[2].ok
    /\ now > burst[1].Timestamp
    /\ ts # ""

\* the step being taken is the one the loop records as op
Issued(op) == trace' # trace /\ trace'[Len(trace')].op = op

\* no step of this iteration is one of ops
None(ops) == \A k \in 1..Len(trace) : trace[k].op \notin ops

\* C3 as claimed: with an interval of at most one second no sleep command
\* is ever sent and no wake command is sent after the first cycle's wake
\* check.
C3_NoWakeAfterFirstCycle ==
    interval <= OneSecond =>
        /\ None({"Sleep", "TimeSleep", "AwakeAgain"})
        /\ cycle = 2 => None({"Awake"})

\* C3 amended: with an interval of at most one second no sleep command is
\* ever sent, the loop never waits and sends no wake command at the end of
\* a cycle; a wake command is sent only by a cycle's wake check, right after
\* a query that did not report the device awake, in the first cycle or in
\* any later one.
C3_NoSleepBetweenCycles ==
    interval <= OneSecond =>
        /\ None({"Sleep", "TimeSleep", "AwakeAgain"})
        /\ \A k \in 1..Len(trace) :
             trace[k].op = "Awake" => k = 2 /\ trace[1].op = "IsAwake" /\ ~awake

\* a later cycle is over, the interval is exactly one second and its wake
\* check sent a wake command
C3_Witness ==
    /\ interval = OneSecond
    /\ cycle = 2
    /\ pc = "for"
    /\ Len(Steps("Awake")) = 1
    /\ Len(Steps("SetPM25")) = 1

Max(a, b) == IF a >= b THEN a ELSE b

\* C4 as claimed: with an interval above one second the start times of
\* consecutive cycles are exactly one interval apart, however long the
\* steps of the cycle took.
C4_SpacedExactly ==
    [][Issued("Now") /\ interval > OneSecond /\ t0prev >= 0 =>
          now = t0prev + interval]_vars

\* C4 amended: with an interval above one second the start times of
\* consecutive cycles are at least one interval apart; the wait at the end
\* of a cycle ends at t0 + interval, or at once when the cycle's work ran
\* past that, and the next start time is taken after the wake command and
\* the wake check that follow the wait, so the spacing is the interval only
\* when the work fitted in the window and those took no time.
C4_SpacedAtLeast ==
    [][Issued("Now") /\ interval > OneSecond /\ t0prev >= 0 =>
          /\ wait.to = Max(wait.from, t0prev + interval)
          /\ now >= wait.to
          /\ now >= t0prev + interval]_vars

\* the second cycle of a run with an interval above one second has taken
\* its start time, after a first cycle whose wait was a real one
C4_Witness ==
    /\ interval > OneSecond
    /\ cycle = 2
    /\ pc = "get"
    /\ t1 >= interval

\* every pair (pm25, pm10) a measurement can have with the flags given
Measurements ==
    LET Bursts == UNION {[1..n -> Points] : n \in 0..samples}
    IN  {Pair(FDiv(Float(SumPM25(b)), samples),
              FDiv(Float(SumPM10(b)), samples)) :
           b \in Bursts}

\* C5: the pair of gauge values a request to /metrics answers with is the
\* pair of one measurement (or the initial pair), never pm25 of one cycle
\* with pm10 of another.
C5_NoTornPair == rd = "done" => scrape \in Measurements

\* C6: when sds011.New fails the process ends at once: no device call is
\* made, no gauge is set and no line is written to standard output.
C6_OpenFailureIsFatal ==
    sensor = "failed" =>
        /\ pc = "exited" /\ exit = "open"
        /\ cycle = 0 /\ trace = <<>> /\ burst = <<>>
        /\ power = "Unknown"
        /\ stdout = <<>>
        /\ pm25mt = Zero /\ pm10mt = Zero

\* the open failed and the process is gone
C6_Witness == sensor = "failed" /\ pc = "exited"

\* C7: a failed reading never ends the cycle or the process: every cycle
\* that runs to its end, whatever readings of it failed, has written exactly
\* one line and set each gauge exactly once before the next one begins.
C7_OneLinePerCycle ==
    /\ Len(stdout) <= 1
    /\ pc \in {"sleep", "wait", "wake"} \/ (pc = "for" /\ cycle > 0) =>
         /\ Len(stdout) = 1
         /\ Len(Steps("Fprintf")) = 1
         /\ Len(Steps("SetPM10")) = 1
         /\ Len(Steps("SetPM25")) = 1
         /\ Len(burst) = samples

\* a later cycle all of whose readings failed is over
C7_Witness ==
    /\ pc = "for"
    /\ cycle = 2
    /\ samples = 2
    /\ Good(burst) = <<>>
    /\ Len(stdout) = 1

\* C8: once the sensor is open, the handle is closed by the time the
\* process is gone, whatever ended it.
C8_ClosedOnEveryExit == pc = "exited" => sensor # "open"

\* C9: a failure of the metrics server does not stop the loop.
C9_ServerFailureSparesLoop == http = "failed" => pc # "exited"

\* C10 as claimed: a sleep command is sent only to an Awake device and only
\* with an interval above one second, a wake command only to an Asleep
\* device, and Unknown is left only by the first cycle's query.
C10_StateMachine ==
    [][/\ Issued("Sleep") => power = "Awake" /\ interval > OneSecond
       /\ Issued("Awake") \/ Issued("AwakeAgain") => power = "Asleep"
       /\ power = "Unknown" /\ power' # "Unknown" =>
            Issued("IsAwake") /\ cycle' = 1
       /\ power' # power =>
            \/ Issued("IsAwake") /\ power = "Unknown"
            \/ Issued("Awake") \/ Issued("AwakeAgain")
            \/ Issued("Sleep")]_vars

\* C10 amended: a sleep command is sent only with an interval above one
\* second; a wake command is sent only after a query that did not report
\* the device awake (it said asleep, or it failed) or right after the wait
\* at the end of a cycle; the power state changes only from Unknown by a
\* query that succeeds, to Awake by a wake command that takes effect and to
\* Asleep by a sleep command that takes effect.
C10_PowerTransitions ==
    [][/\ Issued("Sleep") => interval > OneSecond
       /\ Issued("Awake") => ~awake /\ trace[Len(trace)].op = "IsAwake"
       /\ Issued("AwakeAgain") =>
            interval > OneSecond /\ trace[Len(trace)].op = "TimeSleep"
       /\ power' # power =>
            \/ Issued("IsAwake") /\ power = "Unknown" /\ ~err'
            \/ (Issued("Awake") \/ Issued("AwakeAgain")) /\ power' = "Awake"
            \/ Issued("Sleep") /\ power' = "Asleep"]_vars

\* with an interval above one second, after a first cycle that slept and
\* woke the device, the query of a later cycle failed with the device awake
\* and the wake command went to an Awake device
C10_Witness ==
    /\ interval > OneSecond
    /\ cycle = 2
    /\ pc = "get"
    /\ err
    /\ \E k \in 1..Len(trace) :
         trace[k].op = "Awake" /\ trace[k].power = "Awake"

\* C11: listen_http is started exactly when -listen-address is not empty;
\* without an address no request is served and the loop sets no gauge.
C11_NoSinkWithoutAddress ==
    /\ pc # "main" => (http # "off" <=> addr # "")
    /\ addr = "" =>
         /\ http = "off" /\ rd = "idle"
         /\ None({"SetPM10", "SetPM25"})
         /\ pm25mt = Zero /\ pm10mt = Zero

\* ------------------------------------------------- reading a line back
\* the positions of the commas of a text
Commas(s) == {k \in 1..Len(s) : SubSeq(s, k, k) = ","}

IsDigits(s) ==
    /\ Len(s) > 0
    /\ \A k \in 1..Len(s) : \E d \in 0..9 : SubSeq(s, k, k) = Digit(d)

RECURSIVE ParseNat(_)
ParseNat(s) ==
    IF Len(s) = 0 THEN 0
    ELSE 10 * ParseNat(SubSeq(s, 1, Len(s) - 1))
         + (CHOOSE d \in 0..9 : SubSeq(s, Len(s), Len(s)) = Digit(d))

\* s is digits, a point and exactly two digits
IsFixed2(s) ==
    /\ Len(s) >= 4
    /\ IsDigits(SubSeq(s, 1, Len(s) - 3))
    /\ SubSeq(s, Len(s) - 2, Len(s) - 2) = "."
    /\ IsDigits(SubSeq(s, Len(s) - 1, Len(s)))

\* the hundredths such a text stands for
Hundredths(s) ==
    100 * ParseNat(SubSeq(s, 1, Len(s) - 3))
    + ParseNat(SubSeq(s, Len(s) - 1, Len(s)))

\* s is the value x (held in tenths) to two decimals, rounded to nearest
IsTwoDecimals(s, x) ==
    /\ IsFixed2(s)
    /\ LET e == 20 * x.num - 2 * Hundredths(s) * x.den
       IN  -x.den <= e /\ e <= x.den

\* days from 1970-01-01 to the civil date y-m-d
DaysFromCivil(y, m, d) ==
    LET yy  == IF m <= 2 THEN y - 1 ELSE y
        era == yy \div 400
        yoe == yy - era * 400
        doy == (153 * (IF m > 2 THEN m - 3 ELSE m + 9) + 2) \div 5 + d - 1
        doe == yoe * 365 + yoe \div 4 - yoe \div 100 + doy
    IN  era * 146097 + doe - 719468

\* s has the shape YYYY-MM-DDThh:mm:ssZ and names the second sec
IsRFC3339(s, sec) ==
    /\ Len(s) = 20
    /\ IsDigits(SubSeq(s, 1, 4)) /\ SubSeq(s, 5, 5) = "-"
    /\ IsDigits(SubSeq(s, 6, 7)) /\ SubSeq(s, 8, 8) = "-"
    /\ IsDigits(SubSeq(s, 9, 10)) /\ SubSeq(s, 11, 11) = "T"
    /\ IsDigits(SubSeq(s, 12, 13)) /\ SubSeq(s, 14, 14) = ":"
    /\ IsDigits(SubSeq(s, 15, 16)) /\ SubSeq(s, 17, 17) = ":"
    /\ IsDigits(SubSeq(s, 18, 19)) /\ SubSeq(s, 20, 20) = "Z"
    /\ ParseNat(SubSeq(s, 6, 7)) \in 1..12
    /\ ParseNat(SubSeq(s, 9, 10)) \in 1..31
    /\ ParseNat(SubSeq(s, 12, 13)) < 24
    /\ ParseNat(SubSeq(s, 15, 16)) < 60
    /\ ParseNat(SubSeq(s, 18, 19)) < 60
    /\ sec = 86400 * DaysFromCivil(ParseNat(SubSeq(s, 1, 4)),
                                   ParseNat(SubSeq(s, 6, 7)),
                                   ParseNat(SubSeq(s, 9, 10)))
             + 3600 * ParseNat(SubSeq(s, 12, 13))
             + 60 * ParseNat(SubSeq(s, 15, 16))
             + ParseNat(SubSeq(s, 18, 19))

\* s is the instant of tick t in the configured mode
IsTimestamp(s, t) ==
    LET sec == StartEpoch + t \div OneSecond
    IN  IF unix
        THEN /\ IsDigits(s)
             /\ SubSeq(s, 1, 1) # "0"
             /\ ParseNat(s) = sec
        ELSE IsRFC3339(s, sec)

\* the line l is: timestamp of burst b's last good reading (nothing when it
\* has none), comma, a to two decimals, comma, c to two decimals, newline
IsLineOf(l, b, a, c) ==
    /\ Cardinality(Commas(l)) = 2
    /\ SubSeq(l, Len(l), Len(l)) = "\n"
    /\ LET k1 == CHOOSE k \in Commas(l) : \A j \in Commas(l) : k <= j
           k2 == CHOOSE k \in Commas(l) : \A j \in Commas(l) : k >= j
           f1 == SubSeq(l, 1, k1 - 1)
           f2 == SubSeq(l, k1 + 1, k2 - 1)
           f3 == SubSeq(l, k2 + 1, Len(l) - 1)
       IN  /\ IF Good(b) = <<>> THEN f1 = ""
              ELSE IsTimestamp(f1, Good(b)[Len(Good(b))].Timestamp)
           /\ IsTwoDecimals(f2, a)
           /\ IsTwoDecimals(f3, c)

\* the averages a burst must give
Avg25(b) == [num |-> SumPM25(Good(b)), den |-> samples]
Avg10(b) == [num |-> SumPM10(Good(b)), den |-> samples]

Ops == [k \in 1..Len(trace) |-> trace[k].op]

\* the steps a whole cycle is made of, in the order of section 4.5
CycleSteps ==
    <<"IsAwake">> \o (IF awake THEN <<>> ELSE <<"Awake">>) \o <<"Now">>
    \o [k \in 1..samples |-> "Get"]
    \o <<"Average", "Fprintf", "SetPM10", "SetPM25">>
    \o (IF interval > OneSecond THEN <<"Sleep", "TimeSleep", "AwakeAgain">>
        ELSE <<>>)

IsPrefix(a, b) == Len(a) <= Len(b) /\ a = SubSeq(b, 1, Len(a))

\* C13: the steps of a cycle come in the stated order: wake check (and wake
\* if needed), t0, the burst, the line, the two gauges and, above one
\* second, sleep, wait, wake; no reading is requested after the sleep
\* command, none is stamped before t0, and a cycle begins only when the
\* one before it has made all its steps.
C13_StepsInOrder ==
    /\ [](/\ IsPrefix(Ops, CycleSteps)
          /\ pc = "for" => Ops = <<>> \/ Ops = CycleSteps
          /\ \A k \in 1..Len(burst) :
               burst[k].ok => burst[k].Timestamp >= t1)
    /\ [][Issued("IsAwake") => Ops = <<>> \/ Ops = CycleSteps]_vars
    /\ [][Issued("Get") => None({"Sleep", "TimeSleep", "AwakeAgain"})]_vars

\* a cycle with a wake command, two readings and the sleep, wait and wake of
\* a long interval has made all its steps
C13_Witness ==
    /\ pc = "for" /\ cycle > 0
    /\ interval > OneSecond /\ samples = 2 /\ ~awake
    /\ Ops = CycleSteps
    /\ Len(Ops) = 12

\* ------------------------------------------------- the gauges
\* both gauges have been set in this iteration
Updated ==
    \/ pc \in {"sleep", "wait", "wake"}
    \/ pc = "for" /\ cycle > 0

\* the value x is the sum over the number of readings asked for
IsAverage(x, sum) == x.num * samples = sum * x.den

\* C14: with a listen address, once a cycle has set the gauges, pm25 holds
\* the pm25 average of that cycle's burst and pm10 its pm10 average,
\* whatever they held before, and these are the values the line just
\* written shows to two decimals, pm25 second and pm10 third.
C14_GaugesHoldTheMeasurement ==
    addr # "" /\ Updated =>
      /\ IsAverage(pm25mt, SumPM25(Good(burst)))
      /\ IsAverage(pm10mt, SumPM10(Good(burst)))
      /\ pm25mt = pm25 /\ pm10mt = pm10
      /\ Len(stdout) = 1
      /\ Ops[Len(Ops)] = "SetPM25" =>
           IsLineOf(stdout[1], burst, pm25mt, pm10mt)

\* a second cycle has set the gauges to the values of its one reading
C14_Witness ==
    /\ addr # "" /\ Updated
    /\ cycle = 2 /\ samples = 1
    /\ Ops[Len(Ops)] = "SetPM25"
    /\ pm25mt = Float(1) /\ pm10mt = Float(2)
    /\ pm25mt # pm10mt

\* ------------------------------------------------- one cycle, one burst
\* C15: a measurement is made from the readings of its own cycle alone: the
\* sums and the timestamp are empty when a cycle begins, whatever the cycle
\* before it left in them and in the gauges, and a cycle whose readings all
\* failed prints no timestamp and the averages 0.00 and 0.00.
C15_OnlyItsOwnBurst ==
    /\ Ops # <<>> /\ burst = <<>> /\ None({"Average"}) =>
         pm25 = Zero /\ pm10 = Zero /\ ts = ""
    /\ pc = "printf" =>
         /\ IsAverage(pm25, SumPM25(Good(burst)))
         /\ IsAverage(pm10, SumPM10(Good(burst)))
         /\ ts = LastStamp(burst)
    /\ Len(stdout) = 1 /\ Good(burst) = <<>> => stdout[1] = ",0.00,0.00\n"

\* the first cycle left its averages in the gauges, and every reading of
\* the cycle after it failed
C15_Witness ==
    /\ cycle = 2 /\ pc = "set10"
    /\ samples = 2 /\ Len(burst) = 2 /\ Good(burst) = <<>>
    /\ pm25mt # Zero /\ pm10mt # Zero
    /\ pm25 = Zero /\ pm10 = Zero
    /\ stdout = <<",0.00,0.00\n">>

\* ------------------------------------------------- the loop goes on
\* C16: once the sensor is open the loop has no end: no step takes the
\* process out of the loop.
C16_LoopHasNoEnd == [][sensor = "open" /\ pc # "exited" => pc' # "exited"]_vars

\* the steps that do end an open loop are all failures of the metrics server
OnlyTheServerEndsTheLoop ==
    [][sensor = "open" /\ pc # "exited" /\ pc' = "exited" =>
         http' = "failed" /\ exit' = "listen"]_vars

\* ------------------------------------------------- the wake check
\* the wake check of this iteration is over: t0 has been taken
Checked == Steps("Now") # <<>>

\* C17: a cycle's wake check sends the wake command exactly when the query
\* did not report the device awake; a query that failed counts as not
\* awake: its error is dropped, the wake command is sent whatever state the
\* device is in, and the cycle goes on to its readings.
C17_WakeIffNotAwake ==
    /\ [](/\ Ops # <<>> => (pc = "awake" => ~awake)
          /\ Checked => (Len(Steps("Awake")) = 1 <=> ~awake)
          /\ Checked /\ awake => Steps("Awake") = <<>>
          /\ Ops # <<>> /\ err => ~awake
          /\ Checked /\ Len(Steps("Awake")) = 1 => Ops[2] = "Awake")
    /\ [][Issued("IsAwake") /\ err' => pc' = "awake"]_vars
    /\ [][Issued("Awake") => pc' = "now" /\ ~awake]_vars

\* the query failed while the device was awake, the wake command was sent
\* to it all the same and the cycle is at its readings
C17_Witness ==
    /\ Len(trace) >= 3
    /\ err /\ ~awake
    /\ trace[1].power = "Awake"
    /\ trace[2].op = "Awake" /\ trace[2].power = "Awake"
    /\ pc = "get" /\ Len(burst) = 1

\* ------------------------------------------------- awake for the readings
\* every wake command of this iteration sent before step k took effect
WakesTookEffect(k) ==
    \A j \in 1..(k - 1) :
      trace[j].op \in {"Awake", "AwakeAgain"} => trace[j + 1].power = "Awake"

\* C18: when the wake commands take effect, every reading is requested
\* from a device that is Awake, never from one that is Asleep or whose power
\* state is still Unknown.
C18_ReadsWhileAwake ==
    \A k \in 1..Len(trace) :
      trace[k].op = "Get" /\ WakesTookEffect(k) => trace[k].power = "Awake"

\* after the sleep of a long interval the device was found asleep, woken by
\* the wake check, and a reading was requested from it
C18_Witness ==
    /\ Len(trace) >= 4
    /\ cycle = 2 /\ interval > OneSecond
    /\ trace[1].power = "Asleep"
    /\ trace[2].op = "Awake" /\ trace[3].power = "Awake"
    /\ trace[4].op = "Get" /\ trace[4].power = "Awake"

\* ------------------------------------------------- a cycle that overran
\* the start time of the cycle whose wait is on record
WaitT0 == IF t0prev >= 0 THEN t0prev ELSE t1

\* C19: above one second the wait at the end of a cycle lasts
\* max(0, t0 + interval - now) and never ends after t0 + interval unless it
\* is no wait at all; a cycle whose work took the interval or more sends
\* the sleep command, does not wait, sends the wake command, and the next
\* cycle begins at once and takes its start time no earlier than
\* t0 + interval, later when the work ran past it.
C19_NoWaitAfterOverrun ==
    /\ [](/\ wait # NoWait =>
               /\ interval > OneSecond
               /\ wait.to - wait.from = Max(0, WaitT0 + interval - wait.from)
               /\ wait.to > wait.from => wait.to = WaitT0 + interval
               /\ wait.from >= WaitT0 + interval => wait.to = wait.from
          /\ pc = "for" /\ cycle > 0 /\ interval > OneSecond =>
               /\ wait # NoWait
               /\ Len(Ops) >= 3
               /\ SubSeq(Ops, Len(Ops) - 2, Len(Ops))
                    = <<"Sleep", "TimeSleep", "AwakeAgain">>)
    /\ [][Issued("TimeSleep") =>
            /\ Ops[Len(Ops)] = "Sleep"
            /\ now' - now = Max(0, t1 + interval - now)]_vars
    /\ [][Issued("AwakeAgain") =>
            Ops[Len(Ops)] = "TimeSleep" /\ now' = now]_vars
    /\ [][Issued("IsAwake") /\ wait # NoWait /\ wait.from >= t1 + interval =>
            now' = wait.from]_vars
    /\ [][Issued("Now") /\ t0prev >= 0 /\ wait # NoWait
          /\ wait.from >= t0prev + interval =>
            /\ t1' >= t0prev + interval
            /\ wait.from > t0prev + interval => t1' > t0prev + interval]_vars

\* the work of the first cycle ran past its window; sleep and wake were
\* sent with no wait between them and the second cycle is about to take
\* its start time
C19_Witness ==
    /\ cycle = 2 /\ pc = "now"
    /\ interval > OneSecond
    /\ t0prev >= 0
    /\ wait # NoWait
    /\ wait.from > t0prev + interval
    /\ wait.to = wait.from
    /\ now = wait.from

====
